---------------------------- MODULE Spec2Model ----------------------------
(***************************************************************************)
(* Model of src/main.py: the serial scale reader (BalanzaApp), its polling *)
(* thread (oTimer_Tick), the frame transformation (transformar_trama) and  *)
(* the three HTTP handlers home, iniciar_lectura and detener_lectura.      *)
(*                                                                         *)
(* Strings are sequences of character codes 0..255.  Python indices are    *)
(* 0-based; sequences here are 1-based, and Find / Slice do the shift.     *)
(* Every read or write of an attribute of the shared BalanzaApp object is  *)
(* one step of the thread that performs it: the code takes no lock.        *)
(***************************************************************************)
EXTENDS Integers, Sequences, FiniteSets, TLC

(***************************************************************************)
(* Bounds of the model.                                                    *)
(***************************************************************************)
\* Thread objects that can exist at the same time.
MaxLoops == 2
\* HTTP requests to /iniciar and /detener that can be in flight at once.
MaxClients == 2
\* Chunks the scale sends over the serial line in one behaviour.
MaxChunks == 2
\* Calls of /iniciar and /detener in one behaviour.
MaxCalls == 2
\* Calls of /weight/ in one behaviour.
MaxReads == 1
\* Extra length, beyond the threshold, of the frames of the single-tick check.
MaxPad == 1
\* Longest input of the transformation check.
MaxLen == 3

(***************************************************************************)
(* Program constants.                                                      *)
(***************************************************************************)
\* len(self.cPeso) >= 30
FrameLen == 30
\* ord(c) >= 0x80, chr(ord(c) - 0x80)
HighBit == 128
\* trama_corregida.find('\x02')
STX == 2
\* start_idx = pos + 4
WeightOffset == 4
\* trama_corregida[start_idx:start_idx+6]
WeightLen == 6

\* "----"
Sentinel == <<45, 45, 45, 45>>
\* "0"
Zero == <<48>>
\* ""
Empty == << >>

MsgIniciada == "Lectura iniciada en COM4."
MsgYaActiva == "La lectura ya esta activa."
MsgDetenida == "Lectura detenida."
MsgYaDetenida == "La lectura ya esta detenida."
\* The handler raised: FastAPI answers 500.
MsgError == "raised"
MsgNone == "none"

Bytes == 0 .. 255

Min(a, b) == IF a < b THEN a ELSE b

(***************************************************************************)
(* Pure functions.                                                         *)
(***************************************************************************)
\* A mutant of transformar_trama: > instead of >=.
transformar_trama_gt(trama) ==
    [i \in 1 .. Len(trama) |->
        IF trama[i] > HighBit THEN trama[i] - HighBit ELSE trama[i]]

RECURSIVE transformar_trama(_)
transformar_trama(trama) ==
    IF trama = << >> THEN << >>
    ELSE LET c == Head(trama)
         IN  <<(IF c >= HighBit THEN c - HighBit ELSE c)>>
                 \o transformar_trama(Tail(trama))

\* data.decode('latin-1', errors='ignore'): byte b becomes the character of
\* code b; latin-1 decodes every byte, so nothing is ignored.
DecodeLatin1(data) == [i \in 1 .. Len(data) |-> data[i]]

\* str.find: the 0-based index of the first occurrence, or -1.
Find(s, ch) ==
    IF \E i \in 1 .. Len(s) : s[i] = ch
    THEN (CHOOSE i \in 1 .. Len(s) :
              s[i] = ch /\ \A j \in 1 .. (i - 1) : s[j] # ch) - 1
    ELSE -1

\* s[a:b] for 0 <= a <= b: the characters of 0-based index a .. b-1 that exist.
Slice(s, a, b) ==
    IF a >= Len(s) THEN << >> ELSE SubSeq(s, a + 1, Min(b, Len(s)))

\* A mutant of ExtractWeight: the offset is one short.
ExtractWeightOff3(trama_corregida) ==
    LET pos == Find(trama_corregida, STX)
    IN  IF pos # -1
        THEN Slice(trama_corregida, pos + 3, pos + 3 + WeightLen)
        ELSE Sentinel

\* A mutant of ExtractWeight: rfind instead of find.
ExtractWeightLast(trama_corregida) ==
    IF \E i \in 1 .. Len(trama_corregida) : trama_corregida[i] = STX
    THEN LET pos == (CHOOSE i \in 1 .. Len(trama_corregida) :
                        /\ trama_corregida[i] = STX
                        /\ \A j \in (i + 1) .. Len(trama_corregida) :
                               trama_corregida[j] # STX) - 1
         IN  Slice(trama_corregida, pos + WeightOffset,
                   pos + WeightOffset + WeightLen)
    ELSE Sentinel

\* Lines 155-165: the value stored in txtPeso for a transformed frame.
ExtractWeight(trama_corregida) ==
    LET pos == Find(trama_corregida, STX)
    IN  IF pos # -1
        THEN LET start_idx == pos + WeightOffset
             IN  Slice(trama_corregida, start_idx, start_idx + WeightLen)
        ELSE Sentinel


(***************************************************************************)
(* Inputs: what the scale sends.                                           *)
(***************************************************************************)
Rep(ch, n) == [i \in 1 .. n |-> ch]

\* The end-to-end frame of the specification, padded with blanks to 30 bytes.
RawE2E == <<130, 141, 2, 0, 0, 0, 49, 50, 51, 52, 53, 54>> \o Rep(32, 18)
\* 30 bytes without a start marker, before and after the transformation.
RawNoStx == <<141>> \o Rep(160, 29)
\* An incomplete frame: 12 bytes, high-bit marker first, "+00789" from index 4.
RawPart == <<130, 32, 32, 32, 43, 48, 48, 55, 56, 57, 32, 13>>

Chunks == {RawE2E, RawPart}

(***************************************************************************)
(* State.                                                                  *)
(***************************************************************************)
VARIABLES
    \* BalanzaApp attributes
    cPeso,          \* self.cPeso: the accumulation buffer
    txtPeso,        \* self.txtPeso: the published weight
    txtTrama,       \* self.txtTrama: the published frame
    timer_active,   \* self.timer_active
    is_open,        \* self.oComm.is_open
    thread,         \* self._thread: 0 for None, else a thread id
    \* the serial driver
    wire,           \* bytes waiting in the input buffer (in_waiting of them)
    nSent,          \* chunks the scale has sent so far
    \* the polling threads
    lpc,            \* position of each thread in oTimer_Tick
    ldata,          \* its local chunk
    ltrama,         \* its local trama_corregida
    lno,            \* number of the frame it is publishing
    lerr,           \* it has caught a read error (lines 173-176) and not ended
    \* the /iniciar and /detener requests
    rpc,            \* position of each request
    rop,            \* the endpoint it entered by
    rres,           \* the last answer each client got
    rsecond,        \* the request is a start that directly follows a start
    nCalls,         \* calls of /iniciar and /detener so far
    \* the /weight/ request
    hpc, hPeso, hTrama, hActive,
    hPesoNo,        \* number of the frame the weight it read was extracted from
    hTramaNo,       \* number of the frame it read
    hLast,          \* the last completed call when it began, "busy" if one ran
    hCalls,         \* nCalls when it began
    hStale,         \* `stale` when it began, << >> if an /iniciar was running
    nReads,         \* calls of /weight/ so far
    \* history
    nFrames,        \* frames published so far (writes of txtTrama)
    tramaNo,        \* number of the frame held by txtTrama
    pesoNo,         \* number of the frame txtPeso was extracted from, or 0
    published,      \* every <<txtPeso, txtTrama, timer_active>> there has been
    lastCall,       \* the last completed /iniciar or /detener call
    stale,          \* <<txtPeso, txtTrama>> when a read error last cleared the
                    \* flag, << >> before that and once an /iniciar has set it
    \* the harness of the pure functions
    fpc, arg, ret, ret2

app == <<cPeso, txtPeso, txtTrama, timer_active, is_open, thread>>
serial == <<wire, nSent>>
loops == <<lpc, ldata, ltrama, lno, lerr>>
reqs == <<rpc, rop, rres, rsecond, nCalls>>
reader == <<hpc, hPeso, hTrama, hActive, hPesoNo, hTramaNo, hLast, hCalls,
           hStale, nReads>>
hist == <<nFrames, tramaNo, pesoNo, published, lastCall, stale>>
fn == <<fpc, arg, ret, ret2>>
vars == <<app, serial, loops, reqs, reader, hist, fn>>

LoopIds == 1 .. MaxLoops
Clients == 1 .. MaxClients

\* The threads that have been started and have not returned from oTimer_Tick.
Alive == {t \in LoopIds : lpc[t] \notin {"done", "created"}}
\* The threads inside the body of the while loop (between the test of line 134
\* and the sleep of line 184).
InTick == {t \in LoopIds : lpc[t] \notin {"done", "created", "while"}}

\* BalanzaApp.__init__ and the module's globals.
Init ==
    /\ cPeso = Empty
    /\ txtPeso = Sentinel
    /\ txtTrama = Empty
    /\ timer_active = FALSE
    /\ is_open = FALSE
    /\ thread = 0
    /\ wire = << >>
    /\ nSent = 0
    /\ lpc = [t \in LoopIds |-> "done"]
    /\ ldata = [t \in LoopIds |-> << >>]
    /\ ltrama = [t \in LoopIds |-> << >>]
    /\ lno = [t \in LoopIds |-> 0]
    /\ lerr = [t \in LoopIds |-> FALSE]
    /\ rpc = [c \in Clients |-> "idle"]
    /\ rop = [c \in Clients |-> "none"]
    /\ rres = [c \in Clients |-> MsgNone]
    /\ rsecond = [c \in Clients |-> FALSE]
    /\ nCalls = 0
    /\ hpc = "idle"
    /\ hPeso = Empty
    /\ hTrama = Empty
    /\ hActive = FALSE
    /\ hPesoNo = 0
    /\ hTramaNo = 0
    /\ hLast = "none"
    /\ hCalls = 0
    /\ hStale = << >>
    /\ nReads = 0
    /\ nFrames = 0
    /\ tramaNo = 0
    /\ pesoNo = 0
    /\ published = {<<Sentinel, Empty, FALSE>>}
    /\ lastCall = "none"
    /\ stale = << >>
    /\ fpc = "off"
    /\ arg = << >>
    /\ ret = << >>
    /\ ret2 = << >>

\* The history of published states after a step.
Record == published' = published \cup {<<txtPeso', txtTrama', timer_active'>>}

(***************************************************************************)
(* The scale.                                                              *)
(***************************************************************************)
\* The scale sends a chunk; the driver queues it while the port is open.
DeviceSend ==
    /\ is_open
    /\ nSent < MaxChunks
    /\ \E ch \in Chunks : wire' = wire \o ch
    /\ nSent' = nSent + 1
    /\ UNCHANGED <<app, loops, reqs, reader, hist, fn>>

(***************************************************************************)
(* oTimer_Tick, one step per access to the shared object.                  *)
(***************************************************************************)
\* Lines 184 and 134: the sleep, then the test of the while loop.
LoopWhile(t) ==
    /\ lpc[t] = "while"
    /\ lpc' = [lpc EXCEPT ![t] = IF timer_active THEN "read" ELSE "done"]
    /\ lerr' = [lerr EXCEPT ![t] = @ /\ timer_active]
    /\ UNCHANGED <<app, serial, ldata, ltrama, lno, reqs, reader, hist, fn>>

\* Lines 136-141: is_open, in_waiting and read.  An I/O error of in_waiting or
\* read (also: the port closed under the thread) goes to the handler.
LoopRead(t) ==
    /\ lpc[t] = "read"
    /\ \/ /\ ~is_open
          /\ lpc' = [lpc EXCEPT ![t] = "while"]
          /\ UNCHANGED <<serial, ldata>>
       \/ /\ is_open
          /\ wire = << >>
          /\ lpc' = [lpc EXCEPT ![t] = "len"]
          /\ UNCHANGED <<serial, ldata>>
       \/ /\ is_open
          /\ wire # << >>
          /\ ldata' = [ldata EXCEPT ![t] = DecodeLatin1(wire)]
          /\ wire' = << >>
          /\ lpc' = [lpc EXCEPT ![t] = "append"]
          /\ UNCHANGED nSent
       \/ /\ is_open
          /\ lpc' = [lpc EXCEPT ![t] = "except"]
          /\ UNCHANGED <<serial, ldata>>
    /\ UNCHANGED <<app, ltrama, lno, lerr, reqs, reader, hist, fn>>

\* Line 142: self.cPeso += chunk.
LoopAppend(t) ==
    /\ lpc[t] = "append"
    /\ cPeso' = cPeso \o ldata[t]
    /\ ldata' = [ldata EXCEPT ![t] = << >>]
    /\ lpc' = [lpc EXCEPT ![t] = "len"]
    /\ UNCHANGED <<txtPeso, txtTrama, timer_active, is_open, thread, serial,
                   ltrama, lno, lerr, reqs, reader, hist, fn>>

\* Line 146: len(self.cPeso) >= 30.
LoopLen(t) ==
    /\ lpc[t] = "len"
    /\ lpc' = [lpc EXCEPT ![t] = IF Len(cPeso) >= FrameLen THEN "xform" ELSE "empty"]
    /\ UNCHANGED <<app, serial, ldata, ltrama, lno, lerr, reqs, reader, hist, fn>>

\* Line 149: trama_corregida = transformar_trama(self.cPeso).
LoopTransform(t) ==
    /\ lpc[t] = "xform"
    /\ ltrama' = [ltrama EXCEPT ![t] = transformar_trama(cPeso)]
    /\ lpc' = [lpc EXCEPT ![t] = "trama"]
    /\ UNCHANGED <<app, serial, ldata, lno, lerr, reqs, reader, hist, fn>>

\* Line 152: self.txtTrama = trama_corregida.
LoopTrama(t) ==
    /\ lpc[t] = "trama"
    /\ txtTrama' = ltrama[t]
    /\ nFrames' = nFrames + 1
    /\ tramaNo' = nFrames + 1
    /\ lno' = [lno EXCEPT ![t] = nFrames + 1]
    /\ lpc' = [lpc EXCEPT ![t] = "peso"]
    /\ UNCHANGED <<cPeso, txtPeso, timer_active, is_open, thread, serial,
                   ldata, ltrama, lerr, reqs, reader, pesoNo, lastCall, stale,
                   fn>>
    /\ Record

\* Lines 155-165: find the marker, slice, self.txtPeso = weight or "----".
LoopPeso(t) ==
    /\ lpc[t] = "peso"
    /\ txtPeso' = ExtractWeight(ltrama[t])
    /\ pesoNo' = lno[t]
    /\ lpc' = [lpc EXCEPT ![t] = "reset"]
    /\ UNCHANGED <<cPeso, txtTrama, timer_active, is_open, thread, serial,
                   ldata, ltrama, lno, lerr, reqs, reader, nFrames, tramaNo, stale,
                   lastCall, fn>>
    /\ Record

\* Line 168: self.cPeso = "".
LoopReset(t) ==
    /\ lpc[t] = "reset"
    /\ cPeso' = Empty
    /\ ltrama' = [ltrama EXCEPT ![t] = << >>]
    /\ lno' = [lno EXCEPT ![t] = 0]
    /\ lpc' = [lpc EXCEPT ![t] = "while"]
    /\ UNCHANGED <<txtPeso, txtTrama, timer_active, is_open, thread, serial,
                   ldata, lerr, reqs, reader, hist, fn>>

\* A mutant of LoopEmpty: the test of line 171 is missing.
LoopEmptyAlways(t) ==
    /\ lpc[t] = "empty"
    /\ txtPeso' = Sentinel
    /\ pesoNo' = 0
    /\ lpc' = [lpc EXCEPT ![t] = "while"]
    /\ UNCHANGED <<cPeso, txtTrama, timer_active, is_open, thread, serial,
                   ldata, ltrama, lno, lerr, reqs, reader, nFrames, tramaNo,
                   stale, lastCall, fn>>
    /\ Record

\* Lines 171-172: if len(self.cPeso) == 0: self.txtPeso = "----".
LoopEmpty(t) ==
    /\ lpc[t] = "empty"
    /\ IF Len(cPeso) = 0
       THEN /\ txtPeso' = Sentinel
            /\ pesoNo' = 0
       ELSE UNCHANGED <<txtPeso, pesoNo>>
    /\ lpc' = [lpc EXCEPT ![t] = "while"]
    /\ UNCHANGED <<cPeso, txtTrama, timer_active, is_open, thread, serial,
                   ldata, ltrama, lno, lerr, reqs, reader, nFrames, tramaNo, stale,
                   lastCall, fn>>
    /\ Record

\* Line 176: self.timer_active = False.
LoopExcept(t) ==
    /\ lpc[t] = "except"
    /\ timer_active' = FALSE
    /\ lpc' = [lpc EXCEPT ![t] = "close"]
    /\ lerr' = [lerr EXCEPT ![t] = TRUE]
    /\ stale' = <<txtPeso, txtTrama>>
    /\ UNCHANGED <<cPeso, txtPeso, txtTrama, is_open, thread, serial,
                   ldata, ltrama, lno, reqs, reader, nFrames, tramaNo, pesoNo,
                   lastCall, fn>>
    /\ Record

\* Lines 177-181: close the port if it is open; the driver drops its input.
LoopClose(t) ==
    /\ lpc[t] = "close"
    /\ is_open' = FALSE
    /\ wire' = << >>
    /\ lpc' = [lpc EXCEPT ![t] = "while"]
    /\ UNCHANGED <<cPeso, txtPeso, txtTrama, timer_active, thread, nSent,
                   ldata, ltrama, lno, lerr, reqs, reader, hist, fn>>

oTimer_Tick(t) ==
    \/ LoopWhile(t)
    \/ LoopRead(t)
    \/ LoopAppend(t)
    \/ LoopLen(t)
    \/ LoopTransform(t)
    \/ LoopTrama(t)
    \/ LoopPeso(t)
    \/ LoopReset(t)
    \/ LoopEmpty(t)
    \/ LoopExcept(t)
    \/ LoopClose(t)

(***************************************************************************)
(* The /iniciar and /detener handlers and toggle_connection.               *)
(***************************************************************************)
\* A request takes the lowest free client slot.
CanBegin(c) ==
    /\ nCalls < MaxCalls
    /\ rpc[c] = "idle"
    /\ \A d \in Clients : d < c => rpc[d] # "idle"

\* The handler returns `msg` (or raises, for MsgError).
Answer(c, msg, tag) ==
    /\ rpc' = [rpc EXCEPT ![c] = "idle"]
    /\ rres' = [rres EXCEPT ![c] = msg]
    /\ lastCall' = tag
    /\ UNCHANGED <<rop, rsecond, nCalls>>

\* The thread ids a new Thread object can take: those of threads that have
\* ended, and of objects that were replaced in self._thread before their start.
FreeIds == {t \in LoopIds : lpc[t] = "done" \/ (lpc[t] = "created" /\ thread # t)}

\* Line 220: if not balanza.timer_active ... else "La lectura ya está activa."
iniciar_lectura(c) ==
    /\ CanBegin(c)
    /\ rop' = [rop EXCEPT ![c] = "iniciar"]
    /\ rsecond' = [rsecond EXCEPT ![c] =
           lastCall = "started" /\ \A d \in Clients : rpc[d] = "idle"]
    /\ nCalls' = nCalls + 1
    /\ IF ~timer_active
       THEN /\ rpc' = [rpc EXCEPT ![c] = "t90"]
            /\ rres' = [rres EXCEPT ![c] = MsgNone]
            /\ UNCHANGED lastCall
       ELSE /\ rpc' = [rpc EXCEPT ![c] = "idle"]
            /\ rres' = [rres EXCEPT ![c] = MsgYaActiva]
            /\ lastCall' = "other"
    /\ UNCHANGED <<app, serial, loops, reader, nFrames, tramaNo, stale, pesoNo,
                   published, fn>>

\* A mutant of detener_lectura: the test of line 233 is missing.
detener_lectura_nocheck(c) ==
    /\ CanBegin(c)
    /\ rop' = [rop EXCEPT ![c] = "detener"]
    /\ rpc' = [rpc EXCEPT ![c] = "t90"]
    /\ lastCall' = "other"
    /\ nCalls' = nCalls + 1
    /\ rres' = [rres EXCEPT ![c] = MsgNone]
    /\ rsecond' = [rsecond EXCEPT ![c] = FALSE]
    /\ UNCHANGED <<app, serial, loops, reader, nFrames, tramaNo, stale, pesoNo,
                   published, fn>>

\* Line 233: if balanza.timer_active ... else "La lectura ya está detenida."
detener_lectura(c) ==
    /\ CanBegin(c)
    /\ rop' = [rop EXCEPT ![c] = "detener"]
    /\ lastCall' = "other"
    /\ nCalls' = nCalls + 1
    /\ IF timer_active
       THEN /\ rpc' = [rpc EXCEPT ![c] = "t90"]
            /\ rres' = [rres EXCEPT ![c] = MsgNone]
       ELSE /\ rpc' = [rpc EXCEPT ![c] = "idle"]
            /\ rres' = [rres EXCEPT ![c] = MsgYaDetenida]
    /\ rsecond' = [rsecond EXCEPT ![c] = FALSE]
    /\ UNCHANGED <<app, serial, loops, reader, nFrames, tramaNo, stale, pesoNo,
                   published, fn>>

\* Line 90: if not self.timer_active.
Toggle90(c) ==
    /\ rpc[c] = "t90"
    /\ rpc' = [rpc EXCEPT ![c] = IF ~timer_active THEN "t95" ELSE "t110"]
    /\ UNCHANGED <<app, serial, loops, rop, rres, rsecond, nCalls, reader, hist, fn>>

\* A mutant of Toggle95: a failed open leaves the active flag set.
Toggle95SetsFlag(c) ==
    /\ rpc[c] = "t95"
    /\ \/ /\ ~is_open
          /\ is_open' = TRUE
          /\ wire' = << >>
          /\ rpc' = [rpc EXCEPT ![c] = "t98"]
          /\ UNCHANGED <<timer_active, rres, lastCall, published, nCalls>>
       \/ /\ timer_active' = TRUE
          /\ Answer(c, MsgError, "openfailed")
          /\ published' = published \cup {<<txtPeso, txtTrama, TRUE>>}
          /\ UNCHANGED <<is_open, wire>>
    /\ UNCHANGED <<cPeso, txtPeso, txtTrama, thread, nSent, loops, rop,
                   rsecond, reader, nFrames, tramaNo, stale, pesoNo, fn>>

\* Lines 95 and 103-105: self.oComm.open().  It raises when the port is open
\* already and when the device cannot be opened; the handler re-raises.
Toggle95(c) ==
    /\ rpc[c] = "t95"
    /\ \/ /\ ~is_open
          /\ is_open' = TRUE
          /\ wire' = << >>
          /\ rpc' = [rpc EXCEPT ![c] = "t98"]
          /\ UNCHANGED <<rres, lastCall, nCalls>>
       \/ /\ Answer(c, MsgError, "openfailed")
          /\ UNCHANGED <<is_open, wire>>
    /\ UNCHANGED <<cPeso, txtPeso, txtTrama, timer_active, thread, nSent,
                   loops, rop, rsecond, reader, nFrames, tramaNo, stale, pesoNo,
                   published, fn>>

\* Line 98: self.timer_active = True.
Toggle98(c) ==
    /\ rpc[c] = "t98"
    /\ timer_active' = TRUE
    /\ rpc' = [rpc EXCEPT ![c] = "t99"]
    /\ stale' = IF rop[c] = "iniciar" THEN << >> ELSE stale
    /\ UNCHANGED <<cPeso, txtPeso, txtTrama, is_open, thread, serial, loops,
                   rop, rres, rsecond, nCalls, reader, nFrames, tramaNo, pesoNo,
                   lastCall, fn>>
    /\ Record

\* Line 99: self._thread = threading.Thread(target=self.oTimer_Tick).
Toggle99(c) ==
    /\ rpc[c] = "t99"
    /\ FreeIds # {}
    /\ LET n == CHOOSE t \in FreeIds : \A u \in FreeIds : t <= u
       IN  /\ lpc' = [lpc EXCEPT ![n] = "created"]
           /\ thread' = n
    /\ rpc' = [rpc EXCEPT ![c] = "t100"]
    /\ UNCHANGED <<cPeso, txtPeso, txtTrama, timer_active, is_open, serial,
                   ldata, ltrama, lno, lerr, rop, rres, rsecond, nCalls, reader, hist, fn>>

\* Lines 100-102: self._thread.start(), which raises for a thread that was
\* started before; then the handler's return.
Toggle100(c) ==
    /\ rpc[c] = "t100"
    /\ IF lpc[thread] = "created"
       THEN /\ lpc' = [lpc EXCEPT ![thread] = "while"]
            /\ Answer(c, IF rop[c] = "iniciar" THEN MsgIniciada ELSE MsgDetenida,
                      IF rop[c] = "iniciar" THEN "started" ELSE "other")
       ELSE /\ Answer(c, MsgError, "other")
            /\ UNCHANGED lpc
    /\ UNCHANGED <<app, serial, ldata, ltrama, lno, lerr, reader, nFrames, tramaNo, stale,
                   pesoNo, published, fn>>

\* Line 110: self.timer_active = False.
Toggle110(c) ==
    /\ rpc[c] = "t110"
    /\ timer_active' = FALSE
    /\ rpc' = [rpc EXCEPT ![c] = "t113"]
    /\ UNCHANGED <<cPeso, txtPeso, txtTrama, is_open, thread, serial, loops,
                   rop, rres, rsecond, nCalls, reader, nFrames, tramaNo, stale, pesoNo,
                   lastCall, fn>>
    /\ Record

\* Lines 113-114: self._thread.join(timeout=1.0) returns when the thread has
\* ended or after the timeout, whichever comes first, and raises for a thread
\* that was not started yet (lines 124-126 re-raise).
Toggle113(c) ==
    /\ rpc[c] = "t113"
    /\ IF thread # 0 /\ lpc[thread] = "created"
       THEN Answer(c, MsgError, "other")
       ELSE /\ rpc' = [rpc EXCEPT ![c] = "t116"]
            /\ UNCHANGED <<rop, rres, rsecond, nCalls, lastCall>>
    /\ UNCHANGED <<app, serial, loops, reader, nFrames, tramaNo, stale, pesoNo,
                   published, fn>>

\* Lines 116-118: if self.oComm.is_open: self.oComm.close().
Toggle116(c) ==
    /\ rpc[c] = "t116"
    /\ is_open' = FALSE
    /\ wire' = << >>
    /\ rpc' = [rpc EXCEPT ![c] = "t121"]
    /\ UNCHANGED <<cPeso, txtPeso, txtTrama, timer_active, thread, nSent,
                   loops, rop, rres, rsecond, nCalls, reader, hist, fn>>

\* Line 121: self.txtPeso = "0".
Toggle121(c) ==
    /\ rpc[c] = "t121"
    /\ txtPeso' = Zero
    /\ pesoNo' = 0
    /\ rpc' = [rpc EXCEPT ![c] = "t122"]
    /\ UNCHANGED <<cPeso, txtTrama, timer_active, is_open, thread, serial,
                   loops, rop, rres, rsecond, nCalls, reader, nFrames, tramaNo, stale,
                   lastCall, fn>>
    /\ Record

\* Line 122: self.cPeso = "", then the handler's return.
Toggle122(c) ==
    /\ rpc[c] = "t122"
    /\ cPeso' = Empty
    /\ Answer(c, IF rop[c] = "iniciar" THEN MsgIniciada ELSE MsgDetenida,
              IF rop[c] = "detener" THEN "stopped" ELSE "other")
    /\ UNCHANGED <<txtPeso, txtTrama, timer_active, is_open, thread, serial,
                   loops, reader, nFrames, tramaNo, stale, pesoNo, published, fn>>

toggle_connection(c) ==
    \/ Toggle90(c)
    \/ Toggle95(c)
    \/ Toggle98(c)
    \/ Toggle99(c)
    \/ Toggle100(c)
    \/ Toggle110(c)
    \/ Toggle113(c)
    \/ Toggle116(c)
    \/ Toggle121(c)
    \/ Toggle122(c)

(***************************************************************************)
(* The /weight/ handler.                                                   *)
(***************************************************************************)
\* Line 207: "peso": balanza.txtPeso.
Home207 ==
    /\ hpc \in {"idle", "ret"}
    /\ nReads < MaxReads
    /\ nReads' = nReads + 1
    /\ hPeso' = txtPeso
    /\ hPesoNo' = pesoNo
    /\ hTrama' = Empty
    /\ hTramaNo' = 0
    /\ hActive' = FALSE
    /\ hLast' = IF \A c \in Clients : rpc[c] = "idle" THEN lastCall ELSE "busy"
    /\ hCalls' = nCalls
    /\ hStale' = IF \E c \in Clients : rpc[c] # "idle" /\ rop[c] = "iniciar"
                 THEN << >> ELSE stale
    /\ hpc' = "h208"

\* Line 208: "trama": balanza.txtTrama.
Home208 ==
    /\ hpc = "h208"
    /\ hTrama' = txtTrama
    /\ hTramaNo' = tramaNo
    /\ hpc' = "h209"
    /\ UNCHANGED <<hPeso, hActive, hPesoNo, hLast, hStale, hCalls, nReads>>

\* Line 209: "timer_active": balanza.timer_active, and the return.
Home209 ==
    /\ hpc = "h209"
    /\ hActive' = timer_active
    /\ hpc' = "ret"
    /\ UNCHANGED <<hPeso, hTrama, hPesoNo, hTramaNo, hLast, hStale, hCalls, nReads>>

\* A mutant of home: the dictionary is built with "trama" before "peso".
home_trama_first ==
    /\ \/ /\ hpc \in {"idle", "ret"}
          /\ nReads < MaxReads
          /\ nReads' = nReads + 1
          /\ hTrama' = txtTrama
          /\ hTramaNo' = tramaNo
          /\ hPeso' = Empty
          /\ hPesoNo' = 0
          /\ hActive' = FALSE
          /\ hLast' = IF \A c \in Clients : rpc[c] = "idle" THEN lastCall ELSE "busy"
          /\ hCalls' = nCalls
          /\ hStale' = IF \E c \in Clients : rpc[c] # "idle" /\ rop[c] = "iniciar"
                       THEN << >> ELSE stale
          /\ hpc' = "h208"
       \/ /\ hpc = "h208"
          /\ hPeso' = txtPeso
          /\ hPesoNo' = pesoNo
          /\ hpc' = "h209"
          /\ UNCHANGED <<hTrama, hActive, hTramaNo, hLast, hStale, hCalls, nReads>>
       \/ Home209
    /\ UNCHANGED <<app, serial, loops, reqs, hist, fn>>

home ==
    /\ \/ Home207
       \/ Home208
       \/ Home209
    /\ UNCHANGED <<app, serial, loops, reqs, hist, fn>>

(***************************************************************************)
(* The program.                                                            *)
(***************************************************************************)
Next ==
    \/ DeviceSend
    \/ \E t \in LoopIds : oTimer_Tick(t)
    \/ \E c \in Clients : iniciar_lectura(c)
    \/ \E c \in Clients : detener_lectura(c)
    \/ \E c \in Clients : toggle_connection(c)
    \/ home

Spec == Init /\ [][Next]_vars

(***************************************************************************)
(* One polling thread alone: the state after a successful /iniciar, with   *)
(* one chunk from the scale waiting in the driver.                         *)
(***************************************************************************)
\* The subsets of S with at most two elements.
UpToTwo(S) == {{}} \cup {{a, b} : a, b \in S}

\* A frame of `len` bytes: byte i (0-based) is 64 + i, except the markers at
\* the indices of `at`; with `hi`, every byte has its high bit set.
MarkedFrame(len, at, hi) ==
    [i \in 1 .. len |->
        (IF (i - 1) \in at THEN STX ELSE 64 + (i - 1)) + (IF hi THEN HighBit ELSE 0)]

MarkedFrames ==
    {MarkedFrame(len, at, hi) :
        len \in FrameLen .. (FrameLen + MaxPad),
        at \in UpToTwo(0 .. (FrameLen + MaxPad - 1)),
        hi \in BOOLEAN}

\* The first twelve bytes of the end-to-end frame.
E2EHead == <<130, 141, 2, 0, 0, 0, 49, 50, 51, 52, 53, 54>>
\* The paddings of the end-to-end frame: to 30 bytes and more.
E2EFrames ==
    {E2EHead \o Rep(b, 18 + k) : b \in {0, 2, 32, 130, 255}, k \in 0 .. MaxPad}

TickInputs == MarkedFrames \cup E2EFrames \cup {RawNoStx, RawPart, << >>}

InitTick ==
    /\ cPeso = Empty
    /\ txtPeso = Sentinel
    /\ txtTrama = Empty
    /\ timer_active = TRUE
    /\ is_open = TRUE
    /\ thread = 1
    /\ wire \in TickInputs
    /\ nSent = 1
    /\ lpc = [t \in LoopIds |-> IF t = 1 THEN "while" ELSE "done"]
    /\ ldata = [t \in LoopIds |-> << >>]
    /\ ltrama = [t \in LoopIds |-> << >>]
    /\ lno = [t \in LoopIds |-> 0]
    /\ lerr = [t \in LoopIds |-> FALSE]
    /\ rpc = [c \in Clients |-> "idle"]
    /\ rop = [c \in Clients |-> IF c = 1 THEN "iniciar" ELSE "none"]
    /\ rres = [c \in Clients |-> IF c = 1 THEN MsgIniciada ELSE MsgNone]
    /\ rsecond = [c \in Clients |-> FALSE]
    /\ nCalls = 1
    /\ hpc = "idle"
    /\ hPeso = Empty
    /\ hTrama = Empty
    /\ hActive = FALSE
    /\ hPesoNo = 0
    /\ hTramaNo = 0
    /\ hLast = "none"
    /\ hCalls = 0
    /\ hStale = << >>
    /\ nReads = 0
    /\ nFrames = 0
    /\ tramaNo = 0
    /\ pesoNo = 0
    /\ published = {<<Sentinel, Empty, FALSE>>, <<Sentinel, Empty, TRUE>>}
    /\ lastCall = "started"
    /\ stale = << >>
    /\ fpc = "off"
    /\ arg = << >>
    /\ ret = << >>
    /\ ret2 = << >>

NextTick == \E t \in LoopIds : oTimer_Tick(t)

SpecTick == InitTick /\ [][NextTick]_vars

(***************************************************************************)
(* A running session: the state after a successful /iniciar, the thread    *)
(* about to test the flag; nCalls counts the calls made from here on.      *)
(***************************************************************************)
InitRun ==
    /\ cPeso = Empty
    /\ txtPeso = Sentinel
    /\ txtTrama = Empty
    /\ timer_active = TRUE
    /\ is_open = TRUE
    /\ thread = 1
    /\ wire = << >>
    /\ nSent = 0
    /\ lpc = [t \in LoopIds |-> IF t = 1 THEN "while" ELSE "done"]
    /\ ldata = [t \in LoopIds |-> << >>]
    /\ ltrama = [t \in LoopIds |-> << >>]
    /\ lno = [t \in LoopIds |-> 0]
    /\ lerr = [t \in LoopIds |-> FALSE]
    /\ rpc = [c \in Clients |-> "idle"]
    /\ rop = [c \in Clients |-> IF c = 1 THEN "iniciar" ELSE "none"]
    /\ rres = [c \in Clients |-> IF c = 1 THEN MsgIniciada ELSE MsgNone]
    /\ rsecond = [c \in Clients |-> FALSE]
    /\ nCalls = 0
    /\ hpc = "idle"
    /\ hPeso = Empty
    /\ hTrama = Empty
    /\ hActive = FALSE
    /\ hPesoNo = 0
    /\ hTramaNo = 0
    /\ hLast = "none"
    /\ hCalls = 0
    /\ hStale = << >>
    /\ nReads = 0
    /\ nFrames = 0
    /\ tramaNo = 0
    /\ pesoNo = 0
    /\ published = {<<Sentinel, Empty, FALSE>>, <<Sentinel, Empty, TRUE>>}
    /\ lastCall = "started"
    /\ stale = << >>
    /\ fpc = "off"
    /\ arg = << >>
    /\ ret = << >>
    /\ ret2 = << >>

\* The session with /detener calls only.  A started thread is scheduled again
\* and again (the sleep of line 184 ends), so each thread's steps are weakly
\* fair; nothing makes a client call.
NextStop ==
    \/ DeviceSend
    \/ \E t \in LoopIds : oTimer_Tick(t)
    \/ \E c \in Clients : detener_lectura(c)
    \/ \E c \in Clients : toggle_connection(c)

SpecStop ==
    /\ InitRun
    /\ [][NextStop]_vars
    /\ \A t \in LoopIds : WF_vars(oTimer_Tick(t))

(***************************************************************************)
(* transformar_trama alone, applied to an input and then to its result.    *)
(***************************************************************************)
SampleBytes == {0, 2, 127, 128, 130, 255}

RECURSIVE SeqsUpTo(_, _)
SeqsUpTo(S, n) ==
    IF n = 0 THEN {<< >>}
    ELSE LET shorter == SeqsUpTo(S, n - 1)
         IN  shorter \cup {Append(q, x) : q \in shorter, x \in S}

FnInputs == SeqsUpTo(SampleBytes, MaxLen) \cup {<<b>> : b \in Bytes}

InitFn ==
    /\ cPeso = Empty
    /\ txtPeso = Sentinel
    /\ txtTrama = Empty
    /\ timer_active = FALSE
    /\ is_open = FALSE
    /\ thread = 0
    /\ wire = << >>
    /\ nSent = 0
    /\ lpc = [t \in LoopIds |-> "done"]
    /\ ldata = [t \in LoopIds |-> << >>]
    /\ ltrama = [t \in LoopIds |-> << >>]
    /\ lno = [t \in LoopIds |-> 0]
    /\ lerr = [t \in LoopIds |-> FALSE]
    /\ rpc = [c \in Clients |-> "idle"]
    /\ rop = [c \in Clients |-> "none"]
    /\ rres = [c \in Clients |-> MsgNone]
    /\ rsecond = [c \in Clients |-> FALSE]
    /\ nCalls = 0
    /\ hpc = "idle"
    /\ hPeso = Empty
    /\ hTrama = Empty
    /\ hActive = FALSE
    /\ hPesoNo = 0
    /\ hTramaNo = 0
    /\ hLast = "none"
    /\ hCalls = 0
    /\ hStale = << >>
    /\ nReads = 0
    /\ nFrames = 0
    /\ tramaNo = 0
    /\ pesoNo = 0
    /\ published = {<<Sentinel, Empty, FALSE>>}
    /\ lastCall = "none"
    /\ stale = << >>
    /\ fpc = "call"
    /\ arg \in FnInputs
    /\ ret = << >>
    /\ ret2 = << >>

\* ret = transformar_trama(arg)
FnApply ==
    /\ fpc = "call"
    /\ ret' = transformar_trama(arg)
    /\ fpc' = "once"
    /\ UNCHANGED <<app, serial, loops, reqs, reader, hist, arg, ret2>>

\* ret2 = transformar_trama(ret)
FnApplyAgain ==
    /\ fpc = "once"
    /\ ret2' = transformar_trama(ret)
    /\ fpc' = "twice"
    /\ UNCHANGED <<app, serial, loops, reqs, reader, hist, arg, ret>>

NextFn == FnApply \/ FnApplyAgain

SpecFn == InitFn /\ [][NextFn]_vars

(***************************************************************************)
(* Properties.                                                             *)
(***************************************************************************)
\* Request c begins in this step (it takes the lowest free slot).
Begins(c, op) ==
    /\ CanBegin(c)
    /\ nCalls' = nCalls + 1
    /\ rop'[c] = op

\* Request c returns or raises in this step.
Completes(c) ==
    /\ rpc'[c] = "idle"
    /\ \/ rpc[c] # "idle"
       \/ CanBegin(c) /\ nCalls' = nCalls + 1

\* The /weight/ request has returned, it began after a /detener that found the
\* scale active had returned, and no /iniciar or /detener began since.
ReadAfterStop ==
    /\ hpc = "ret"
    /\ hLast = "stopped"
    /\ hCalls = nCalls

\* C1: after a stop() that was issued while the scale was active has
\* completed, a status read returns weight "----" and lastFrame "".
C1_ReadAfterStopIsReset ==
    ReadAfterStop => (hPeso = Sentinel /\ hTrama = Empty)

\* C2: at most one acquisition loop is executing a tick, in every reachable
\* state.
C2_AtMostOneLoop == Cardinality(InTick) <= 1

\* C3: the second of two /iniciar calls in a row (the first launched the loop,
\* no /detener in between, no open of the port failed) answers "already
\* active", and when it returns the scale is active with exactly one
\* acquisition loop running.
C3_SecondStartAlreadyActive ==
    [][\A c \in Clients :
          (Completes(c) /\ rop'[c] = "iniciar" /\ rsecond'[c]
              /\ lastCall' # "openfailed")
              => /\ rres'[c] = MsgYaActiva
                 /\ timer_active'
                 /\ Cardinality({t \in LoopIds :
                        lpc'[t] \notin {"done", "created"}}) = 1]_vars

\* C4: a /detener call that finds the scale inactive answers "already
\* inactive", does not raise, and changes neither active, weight, lastFrame,
\* the accumulation buffer, the connection nor the threads.
C4_StopWhileInactiveIsNoOp ==
    [][\A c \in Clients :
          (Begins(c, "detener") /\ ~timer_active)
              => /\ rres'[c] = MsgYaDetenida
                 /\ rpc'[c] = "idle"
                 /\ UNCHANGED <<cPeso, txtPeso, txtTrama, timer_active,
                                is_open, thread, wire, lpc>>]_vars

\* C4 witness: a /detener was answered "already inactive" after the loop had
\* decoded a frame and then dropped on a read error (no stop was called
\* before: the two calls are the /iniciar and this /detener).
C4_Witness ==
    \E c \in Clients :
        /\ rpc[c] = "idle"
        /\ rop[c] = "detener"
        /\ rres[c] = MsgYaDetenida
        /\ nCalls = 2
        /\ ~timer_active
        /\ ~is_open
        /\ txtTrama # Empty

\* The thread has published the weight of the end-to-end frame it consumed:
\* the buffer still holds the raw bytes.
E2EPublished(t) == lpc[t] = "reset" /\ cPeso \in E2EFrames

\* C5 as stated: the end-to-end frame decodes to "123456".
C5_E2EWeightIs123456 ==
    \A t \in LoopIds : E2EPublished(t) => txtPeso = <<49, 50, 51, 52, 53, 54>>

\* C5 as amended: 0x82 becomes the marker 0x02 at index 0, so the weight is
\* the six characters at indices 4..9: 0x00, 0x00, "1234".
C5_E2EWeightFromIndex4 ==
    \A t \in LoopIds : E2EPublished(t) => txtPeso = <<0, 0, 49, 50, 51, 52>>

C5_Witness == \E t \in LoopIds : E2EPublished(t) /\ txtTrama[1] = STX

\* The characters of f at the 0-based indices p+4 .. min(p+10, length) - 1, p
\* being the index of the first marker; "----" without a marker.
FirstMarker(f) ==
    CHOOSE p \in 0 .. (Len(f) - 1) :
        f[p + 1] = STX /\ \A q \in 0 .. (p - 1) : f[q + 1] # STX

ExpectedWeight(f) ==
    IF \E i \in DOMAIN f : f[i] = STX
    THEN LET p == FirstMarker(f)
             n == Min(p + 10, Len(f)) - (p + 4)
         IN  [k \in 1 .. (IF n > 0 THEN n ELSE 0) |-> f[p + 4 + k]]
    ELSE Sentinel

\* C6: the decode step publishes, for a transformed frame of length >= 30,
\* the characters [p+4, min(p+10, length)) after the first marker at p, and
\* "----" when the frame has no marker.
C6_DecodePublishesWindow ==
    [][\A t \in LoopIds :
          (lpc[t] = "peso" /\ lpc'[t] = "reset" /\ Len(ltrama[t]) >= FrameLen)
              => txtPeso' = ExpectedWeight(ltrama[t])]_vars

\* C6 witness: a weight of fewer than 6 characters was published, from a
\* marker near the end of the frame.
C6_Witness ==
    \E t \in LoopIds :
        /\ lpc[t] = "reset"
        /\ Len(ltrama[t]) >= FrameLen
        /\ Find(ltrama[t], STX) >= Len(ltrama[t]) - 9
        /\ Len(txtPeso) \in 1 .. 5

\* C7: transformar_trama keeps the length, maps b >= 0x80 to b - 0x80 and
\* keeps every other b; every result is < 0x80 and a second application
\* changes nothing.
C7_TransformClearsHighBit ==
    /\ fpc \in {"once", "twice"} =>
          /\ Len(ret) = Len(arg)
          /\ \A i \in 1 .. Len(arg) :
                /\ ret[i] = IF arg[i] >= 128 THEN arg[i] - 128 ELSE arg[i]
                /\ ret[i] < 128
    /\ fpc = "twice" => ret2 = ret

C7_Witness ==
    /\ fpc = "twice"
    /\ Len(arg) >= 2
    /\ \E i \in 1 .. Len(arg) : arg[i] = 128
    /\ \E i \in 1 .. Len(arg) : arg[i] < 128

\* C8: frames are numbered in the order in which the loop publishes them
\* (line 152).  A status read never returns a weight extracted from frame N
\* together with a lastFrame that was published before frame N.
C8_NoOlderFrameThanWeight ==
    (hpc \in {"h209", "ret"} /\ hPesoNo >= 1) => hTramaNo >= hPesoNo

\* C8 witness: a read that ran during an active poll returned the weight of
\* one frame and the lastFrame of the next one.
C8_Witness ==
    /\ hpc = "ret"
    /\ hActive
    /\ hPesoNo >= 1
    /\ hTramaNo = hPesoNo + 1

\* C9: every status read returns a triple that was the complete published
\* state at one single instant.
C9_ReadIsSnapshot ==
    hpc = "ret" => <<hPeso, hTrama, hActive>> \in published

\* C10: when the open of the port fails, the /iniciar call raises and leaves
\* active, the threads, weight, lastFrame, the buffer and the connection as
\* they were: no loop is launched and active is not set.
C10_FailedOpenChangesNothing ==
    [][\A c \in Clients :
          (rpc[c] = "t95" /\ rpc'[c] = "idle")
              => /\ rres'[c] = MsgError
                 /\ UNCHANGED <<cPeso, txtPeso, txtTrama, timer_active,
                                is_open, thread, wire, lpc>>]_vars

\* C10 witness: an /iniciar raised at the open, the scale is inactive, the port
\* closed and no thread was created.
C10_Witness ==
    /\ lastCall = "openfailed"
    /\ \E c \in Clients : rop[c] = "iniciar" /\ rres[c] = MsgError
    /\ ~timer_active
    /\ ~is_open
    /\ \A t \in LoopIds : lpc[t] = "done"

\* C11: a loop that caught a read error ends: at its next test of the flag it
\* returns, it never starts another tick, whatever calls follow.
C11_ErrorEndsLoop ==
    [][\A t \in LoopIds :
          (lerr[t] /\ lpc[t] = "while") => lpc'[t] \in {"while", "done"}]_vars

\* C12: the published weight is a string of exactly 6 characters or "----",
\* in every reachable state.
C12_WeightIsSixOrSentinel ==
    Len(txtPeso) = WeightLen \/ txtPeso = Sentinel

\* C13: a tick that finds at least 30 characters in the buffer at line 146
\* publishes the transformation of that whole buffer (still at least 30
\* characters when line 149 reads it), with or without a marker in it, and
\* ends with the buffer empty; a tick that finds fewer does not change the
\* buffer.
C13_LongBufferConsumedWhole ==
    [][\A t \in LoopIds :
          /\ (lpc[t] = "xform" /\ lpc'[t] = "trama")
                => /\ Len(cPeso) >= FrameLen
                   /\ ltrama'[t] = transformar_trama(cPeso)
          /\ (lpc[t] = "trama" /\ lpc'[t] = "peso") => txtTrama' = ltrama[t]
          /\ (lpc[t] = "reset" /\ lpc'[t] = "while") => cPeso' = Empty
          /\ (lpc[t] \in {"len", "empty"} /\ lpc'[t] \in {"empty", "while"}
                  /\ lpc'[t] # lpc[t])
                => cPeso' = cPeso]_vars

ReadAfterError ==
    /\ hpc = "ret"
    /\ hStale # << >>
    /\ hCalls = nCalls

\* C15: the steps of a loop that handle a read error (the raise, line 176, the
\* close) leave weight and lastFrame as they were; a status read between the
\* error and the next /iniciar returns active = false with the weight and the
\* lastFrame of the moment of the error.
C15_ErrorKeepsStaleValues ==
    /\ [](ReadAfterError =>
            (~hActive /\ hPeso = hStale[1] /\ hTrama = hStale[2]))
    /\ [][\A t \in LoopIds :
            (lpc'[t] # lpc[t] /\ (lpc'[t] = "except" \/ lpc[t] \in {"except", "close"}))
                => UNCHANGED <<txtPeso, txtTrama>>]_vars

\* C16: the accumulation buffer changes only in a step of an acquisition loop
\* (the append of line 142, the reset of line 168), never in a step of a
\* caller.
C16_BufferOnlyByLoop ==
    [][cPeso' # cPeso =>
          \E t \in LoopIds :
              lpc[t] \in {"append", "reset"} /\ lpc'[t] # lpc[t]]_vars

\* The /detener request c has cleared the flag (line 110) and not returned.
StopClearedFlag(c) ==
    rop[c] = "detener" /\ rpc[c] \in {"t113", "t116", "t121", "t122"}

\* C17: with /detener calls only and weakly fair loop threads: once a stop has
\* cleared the flag every loop ends; while that stop runs no loop begins a new
\* tick; when that stop returns the connection is closed.
C17_CooperativeCancellation ==
    /\ (\E c \in Clients : StopClearedFlag(c)) ~> (Alive = {})
    /\ [][\A t \in LoopIds :
            ((\E c \in Clients : StopClearedFlag(c)) /\ lpc[t] = "while")
                => lpc'[t] # "read"]_vars
    /\ [][\A c \in Clients :
            (StopClearedFlag(c) /\ rpc'[c] = "idle" /\ rres'[c] = MsgDetenida)
                => ~is_open']_vars

\* C18: with /detener calls only and no read error: no step of a /detener
\* opens the connection, creates a thread or starts one, and when two /detener
\* calls have returned the scale is inactive and the connection closed.
C18_ConcurrentStopsOnlyStop ==
    /\ [][\A c \in Clients :
            (rop[c] = "detener" /\ rpc[c] # "idle" /\ rpc'[c] # rpc[c]
                /\ stale = << >>)
                => /\ is_open' => is_open
                   /\ thread' = thread
                   /\ \A t \in LoopIds :
                         lpc'[t] \in {"created", "while"} => lpc'[t] = lpc[t]]_vars
    /\ []((/\ nCalls = 2
           /\ \A c \in Clients : rpc[c] = "idle" /\ rop[c] = "detener"
           /\ stale = << >>)
              => (~timer_active /\ ~is_open))

\* C19: whenever active is true the serial connection is open.
C19_ActiveImpliesOpen == timer_active => is_open

\* C20: when a call starts a new acquisition loop (line 100) and no other loop
\* is alive, the accumulation buffer is empty.
C20_LaunchFindsEmptyBuffer ==
    [][\A t \in LoopIds :
          (/\ lpc[t] = "created"
           /\ lpc'[t] = "while"
           /\ \A u \in LoopIds \ {t} : lpc[u] = "done")
              => cPeso = Empty]_vars

=============================================================================
